---- MODULE Spec2Model ----
(***************************************************************************)
(* The chat route of ai-chatbot: POST /api/chat, ChatController and        *)
(* ChatModel.generateResponse, with the upstream provider and the caller   *)
(* as the environment.  Strings are TLA+ strings; a JSON value decoded by  *)
(* req.json() is a record [t, s, l]: its JavaScript type, its text when a  *)
(* string, and its elements when an array.                                 *)
(***************************************************************************)
EXTENDS Naturals, Sequences, FiniteSets, TLC

(* ---------------------------- bounds ----------------------------------- *)
\* longest conversation in an inbound payload
MaxMsgs == 2
\* most chunks an upstream reply carries
MaxChunks == 2
\* number of chat requests in flight together (ConcSpec)
NumRequests == 2
\* most getAvailableModels calls in one run (CatalogSpec)
MaxListCalls == 2
\* most chunks an upstream reply carries when requests run together
ConcChunks == 1

(* ------------------------ program constants ---------------------------- *)
max_tokens_to_sample == 1000

Prefix == "claude"

Fallback == "gpt-3.5-turbo"

AnthropicUrl == "https://api.anthropic.com/v1/complete"

\* the environment file of the setup guide; process.env is read-only
Env == [OPENAI_API_KEY |-> "your_openai_api_key_here",
        ANTHROPIC_API_KEY |-> "your_anthropic_api_key_here"]

(* ------------------------- JavaScript values --------------------------- *)
Undefined == [t |-> "undefined", s |-> "", l |-> << >>]

JNull == [t |-> "null", s |-> "", l |-> << >>]

JNum == [t |-> "number", s |-> "", l |-> << >>]

JObj == [t |-> "object", s |-> "", l |-> << >>]

JStr(x) == [t |-> "string", s |-> x, l |-> << >>]

JArr(xs) == [t |-> "array", s |-> "", l |-> xs]

\* interface Message
Message == [role : {"user", "assistant"}, content : {"hi", "Hello"}]

\* Message[]
Conversations == UNION {[1..n -> Message] : n \in 0..MaxMsgs}

\* what `messages` of the decoded JSON body can be
MessagesValues == {Undefined, JNull, JNum, JObj, JStr("hi")}
                    \cup {JArr(c) : c \in Conversations}

\* model identifiers: the catalog's two families, the empty string, and
\* near misses of the prefix
ModelIds == {"", "gpt-3.5-turbo", "gpt-4", "claude-v1", "claude",
             "Claude-v1", "claud", "my-claude"}

\* what `model` of the decoded JSON body can be
ModelValues == {Undefined, JNull, JNum} \cup {JStr(m) : m \in ModelIds}

Payloads == [messages : MessagesValues, model : ModelValues]

(* --------------------------- pure helpers ------------------------------ *)
\* process.env.NAME: undefined when the variable is not set
EnvGet(name) == IF name \in DOMAIN Env THEN JStr(Env[name]) ELSE Undefined

\* x || d on a JavaScript value: undefined, null and '' are falsy
OrElse(x, d) == IF x.t \in {"undefined", "null"} \/ (x.t = "string" /\ x.s = "")
                THEN d ELSE x

\* new ChatModel(): the two credentials, read once
NewChatModel == [openaiApiKey |-> EnvGet("OPEN_API_KEY"),
                 anthropicApiKey |-> OrElse(EnvGet("ANTHROPIC_API_KEY"), JStr(""))]

StartsWithLoose(s, p) ==
    \E i \in 1..(Len(s) + 1) :
        i + Len(p) - 1 <= Len(s) /\ SubSeq(s, i, i + Len(p) - 1) = p

\* String.prototype.startsWith
StartsWith(s, p) == Len(s) >= Len(p) /\ SubSeq(s, 1, Len(p)) = p

\* only a string has a startsWith method; on anything else the call throws
HasStartsWith(v) == v.t = "string"

HasMapLenient(v) == TRUE

\* only an array has a map method; on anything else the call throws
HasMap(v) == v.t = "array"

\* `\${m.role}: \${m.content}`: the dollar signs are escaped, so the
\* template has no substitution and cooks to its own text
TemplateLine(m) == "${m.role}: ${m.content}"

RECURSIVE Join(_, _)
\* Array.prototype.join
Join(xs, sep) ==
    IF Len(xs) = 0 THEN ""
    ELSE IF Len(xs) = 1 THEN xs[1]
    ELSE xs[1] \o sep \o Join(Tail(xs), sep)

\* messages.map(...).join('\n') + '\nassistant:'
Prompt(msgs) ==
    Join([i \in 1..Len(msgs) |-> TemplateLine(msgs[i])], "\n") \o "\nassistant:"

\* messages.map((messages) => ({content, role}))
ChatMessages(msgs) ==
    [i \in 1..Len(msgs) |-> [content |-> msgs[i].content, role |-> msgs[i].role]]

ModelOrFallbackAlways(id) == Fallback

\* model || 'gpt-3.5-turbo' on a string
ModelOrFallback(id) == IF id = "" THEN Fallback ELSE id

\* the fetch call of the provider-B branch
AnthropicRequest(inst, messages, model) ==
    [provider |-> "B", url |-> AnthropicUrl, apiKey |-> inst.anthropicApiKey,
     prompt |-> Prompt(messages.l), model |-> model.s,
     max_tokens_to_sample |-> max_tokens_to_sample, stream |-> TRUE]

\* the createChatCompletion call of the provider-A branch
OpenAIRequest(inst, messages, model) ==
    [provider |-> "A", apiKey |-> inst.openaiApiKey,
     model |-> ModelOrFallback(model.s), stream |-> TRUE,
     messages |-> ChatMessages(messages.l)]

Throw == [throws |-> TRUE]

Send(q) == [throws |-> FALSE, request |-> q]

\* ChatModel.generateResponse up to its await: the request it issues, or
\* the TypeError it throws while evaluating the call's arguments
GenerateResponse(inst, messages, model) ==
    IF ~HasStartsWith(model) THEN Throw
    ELSE IF StartsWith(model.s, Prefix)
         THEN IF HasMap(messages)
              THEN Send(AnthropicRequest(inst, messages, model)) ELSE Throw
         ELSE IF HasMap(messages)
              THEN Send(OpenAIRequest(inst, messages, model)) ELSE Throw

\* ChatController.generateResponse: a new ChatModel per controller
ControllerGenerateResponse(messages, selectedModel) ==
    GenerateResponse(NewChatModel, messages, selectedModel)

\* the array literal of ChatModel.getAvailableModels
Catalog ==
    <<[id |-> "gpt-3.5-turbo", name |-> "GPT 3.5 Turbo"],
      [id |-> "gpt-4", name |-> "GPT-4"],
      [id |-> "claude-v1", name |-> "Claude v1"],
      [id |-> "claude-instant-v1", name |-> "Claude Instant v1"],
      [id |-> "text-davinci-003", name |-> "Davinci"],
      [id |-> "text-curie-001", name |-> "Curie"]>>

(* ------------------------------ state --------------------------------- *)
VARIABLES
    pc,        \* where each POST call stands
    body,      \* the decoded JSON body of each request
    sent,      \* the upstream requests each call has issued, in order
    status,    \* the status class of the upstream's answer
    upst,      \* the state of the upstream response body stream
    produced,  \* how many chunks the upstream has put on that stream
    received,  \* the chunks the caller has received, in order
    result,    \* how POST's promise settled
    listed     \* what each getAvailableModels call returned, in call order

vars == <<pc, body, sent, status, upst, produced, received, result, listed>>

Reqs == 1..NumRequests

\* the body {} : what a request holds before its JSON has arrived
NoBody == [messages |-> Undefined, model |-> Undefined]

\* the payloads used when several requests run together: a provider-A
\* request with the empty model, a provider-B request, one with no model
ConcPayloads ==
    {[messages |-> JArr(<<[role |-> "user", content |-> "hi"]>>), model |-> JStr("")],
     [messages |-> JArr(<<[role |-> "user", content |-> "Hello"]>>), model |-> JStr("claude-v1")],
     [messages |-> JArr(<<[role |-> "user", content |-> "hi"]>>), model |-> Undefined]}

Init ==
    /\ pc = [r \in Reqs |-> "idle"]
    /\ body = [r \in Reqs |-> NoBody]
    /\ sent = [r \in Reqs |-> << >>]
    /\ status = [r \in Reqs |-> "none"]
    /\ upst = [r \in Reqs |-> "none"]
    /\ produced = [r \in Reqs |-> 0]
    /\ received = [r \in Reqs |-> << >>]
    /\ result = [r \in Reqs |-> "pending"]
    /\ listed = << >>

(* ---------------------------- environment ----------------------------- *)
\* the i-th chunk the upstream streams in answer to request q
UpstreamByte(q, i) == [of |-> q, n |-> i]

\* the chunks the upstream has produced for call r so far
Produced(r) == [i \in 1..produced[r] |-> UpstreamByte(sent[r][1], i)]

RelayChunkShifted(c) == [c EXCEPT !.n = c.n + 1]

\* new StreamingTextResponse(stream) over response.body: each chunk read
\* from the upstream body is the chunk written to the caller
RelayChunk(c) == c

ErroredNever(st) == FALSE

\* the stream POST hands to the response is the upstream body itself, so
\* the response body is errored exactly when the upstream body is
Errored(st) == st = "errored"

DestructureShared(r) == body[1]

\* const { messages, model } = await req.json()
Destructure(r) == body[r]

(* ------------------------------ actions ------------------------------- *)
\* a caller posts payload p; POST awaits req.json()
Arrive(r, p) ==
    /\ pc[r] = "idle"
    /\ pc' = [pc EXCEPT ![r] = "reading"]
    /\ body' = [body EXCEPT ![r] = p]
    /\ UNCHANGED <<listed, sent, status, upst, produced, received, result>>

\* POST from the decoded body to the await of the upstream call: either
\* the call's arguments throw and POST rejects, or one request goes out
Handle(r) ==
    /\ pc[r] = "reading"
    /\ LET loc == Destructure(r)
           out == ControllerGenerateResponse(loc.messages, loc.model)
       IN  IF out.throws
           THEN /\ pc' = [pc EXCEPT ![r] = "failed"]
                /\ result' = [result EXCEPT ![r] = "TypeError"]
                /\ UNCHANGED sent
           ELSE /\ pc' = [pc EXCEPT ![r] = "awaiting"]
                /\ sent' = [sent EXCEPT ![r] = Append(@, out.request)]
                /\ UNCHANGED result
    /\ UNCHANGED <<listed, body, status, upst, produced, received>>

\* the upstream cannot be reached: the awaited call rejects, and the
\* rejection passes through generateResponse and POST uncaught
ConnectFail(r) ==
    /\ pc[r] = "awaiting"
    /\ pc' = [pc EXCEPT ![r] = "failed"]
    /\ result' = [result EXCEPT ![r] = "NetworkError"]
    /\ UNCHANGED <<listed, body, sent, status, upst, produced, received>>

\* the upstream answers with status class st: the awaited call resolves
\* whatever the status, generateResponse returns response.body and POST
\* returns a StreamingTextResponse over it
Respond(r, st) ==
    /\ pc[r] = "awaiting"
    /\ pc' = [pc EXCEPT ![r] = "streaming"]
    /\ status' = [status EXCEPT ![r] = st]
    /\ upst' = [upst EXCEPT ![r] = "open"]
    /\ result' = [result EXCEPT ![r] = "stream"]
    /\ UNCHANGED <<listed, body, sent, produced, received>>

\* the upstream puts its next chunk on the response body
Produce(r, k) ==
    /\ upst[r] = "open"
    /\ produced[r] < k
    /\ produced' = [produced EXCEPT ![r] = @ + 1]
    /\ UNCHANGED <<listed, pc, body, sent, status, upst, received, result>>

\* the upstream ends its reply
Close(r) ==
    /\ upst[r] = "open"
    /\ upst' = [upst EXCEPT ![r] = "closed"]
    /\ UNCHANGED <<listed, pc, body, sent, status, produced, received, result>>

\* the upstream connection drops: the body stream is errored and the
\* chunks not yet read are discarded with its queue
Drop(r) ==
    /\ upst[r] = "open"
    /\ upst' = [upst EXCEPT ![r] = "errored"]
    /\ UNCHANGED <<listed, pc, body, sent, status, produced, received, result>>

\* the response reads the next chunk of the body and writes it to the caller
Relay(r) ==
    /\ pc[r] = "streaming"
    /\ ~Errored(upst[r])
    /\ Len(received[r]) < produced[r]
    /\ received' = [received EXCEPT
                      ![r] = Append(@, RelayChunk(Produced(r)[Len(@) + 1]))]
    /\ UNCHANGED <<listed, pc, body, sent, status, upst, produced, result>>

\* the body is closed and drained: the caller's stream ends
Finish(r) ==
    /\ pc[r] = "streaming"
    /\ upst[r] = "closed"
    /\ Len(received[r]) = produced[r]
    /\ pc' = [pc EXCEPT ![r] = "done"]
    /\ UNCHANGED <<listed, body, sent, status, upst, produced, received, result>>

\* the body is errored: the caller's stream is cut off
Abort(r) ==
    /\ pc[r] = "streaming"
    /\ Errored(upst[r])
    /\ pc' = [pc EXCEPT ![r] = "aborted"]
    /\ UNCHANGED <<listed, body, sent, status, upst, produced, received, result>>

(* --------------------------- specifications --------------------------- *)
\* one request, over every payload
Next ==
    \/ \E p \in Payloads : Arrive(1, p)
    \/ Handle(1)
    \/ ConnectFail(1)
    \/ \E st \in {"ok", "error"} : Respond(1, st)
    \/ Produce(1, MaxChunks)
    \/ Close(1)
    \/ Drop(1)
    \/ Relay(1)
    \/ Finish(1)
    \/ Abort(1)

Spec == Init /\ [][Next]_vars

\* the runtime keeps pumping a response body until it ends or errors
LiveSpec == Spec /\ WF_vars(Relay(1)) /\ WF_vars(Finish(1)) /\ WF_vars(Abort(1))

\* NumRequests requests, interleaved at every await
ConcNext ==
    \E r \in Reqs :
        \/ \E p \in ConcPayloads : Arrive(r, p)
        \/ Handle(r)
        \/ ConnectFail(r)
        \/ \E st \in {"ok", "error"} : Respond(r, st)
        \/ Produce(r, ConcChunks)
        \/ Close(r)
        \/ Drop(r)
        \/ Relay(r)
        \/ Finish(r)
        \/ Abort(r)

ConcSpec == Init /\ [][ConcNext]_vars

GetAvailableModelsShared(inst) ==
    IF listed = << >> THEN Catalog ELSE Tail(listed[Len(listed)])

\* ChatModel.getAvailableModels: a fresh array built from the literal on
\* every call; it reads no field of the instance
GetAvailableModels(inst) == Catalog

\* ChatController.getAvailableModels, on the controller's own ChatModel
ControllerGetAvailableModels == GetAvailableModels(NewChatModel)

\* the component renders: new ChatController(), then getAvailableModels()
ListModels ==
    /\ Len(listed) < MaxListCalls
    /\ listed' = Append(listed, ControllerGetAvailableModels)
    /\ UNCHANGED <<pc, body, sent, status, upst, produced, received, result>>

\* one chat request, with catalog calls before, during and after it
CatalogNext ==
    \/ \E p \in ConcPayloads : Arrive(1, p)
    \/ Handle(1)
    \/ ConnectFail(1)
    \/ \E st \in {"ok", "error"} : Respond(1, st)
    \/ Produce(1, ConcChunks)
    \/ Close(1)
    \/ Drop(1)
    \/ Relay(1)
    \/ Finish(1)
    \/ Abort(1)
    \/ ListModels

CatalogSpec == Init /\ [][CatalogNext]_vars

(* ------------------------------ claims -------------------------------- *)
\* POST has gone past the decoding of its body
Dispatched(r) == pc[r] \notin {"idle", "reading"}

\* the identifier begins with the six letters c l a u d e
IsProviderBId(id) ==
    /\ Len(id) >= Len("claude")
    /\ \A i \in 1..Len("claude") : SubSeq(id, i, i) = SubSeq("claude", i, i)

\* the conversation's "{role}: {content}" lines, newline-joined, then the cue
RoleContentPrompt(msgs) ==
    Join([i \in 1..Len(msgs) |-> msgs[i].role \o ": " \o msgs[i].content], "\n")
        \o "\nassistant:"

IsPrefixOf(xs, ys) == Len(xs) <= Len(ys) /\ \A i \in 1..Len(xs) : xs[i] = ys[i]

\* C1: for a conversation and a model identifier string, exactly one
\* upstream request goes out, to provider B when the identifier starts
\* with 'claude' and to provider A for every other string, '' included.
C1_RoutesByPrefix ==
    \A r \in Reqs :
        (Dispatched(r) /\ body[r].model.t = "string" /\ body[r].messages.t = "array")
            => /\ Len(sent[r]) = 1
               /\ sent[r][1].provider =
                      IF IsProviderBId(body[r].model.s) THEN "B" ELSE "A"

C1_Witness ==
    /\ pc[1] = "awaiting"
    /\ body[1].model = JStr("claude-v1")
    /\ body[1].messages = JArr(<<[role |-> "user", content |-> "Hello"]>>)
    /\ sent[1][1].provider = "B"

\* C2: the prompt of every provider-B request is the conversation's
\* "{role}: {content}" lines in order, joined by newline, followed by
\* "\nassistant:".
C2_PromptIsRoleContentLines ==
    \A r \in Reqs :
        (sent[r] # << >> /\ sent[r][1].provider = "B")
            => sent[r][1].prompt = RoleContentPrompt(body[r].messages.l)

\* C3 (as stated): the model id in the upstream request is
\* 'gpt-3.5-turbo' exactly when the supplied identifier is the empty string.
C3_FallbackIffEmpty ==
    \A r \in Reqs :
        (sent[r] # << >> /\ body[r].model.t = "string")
            => (sent[r][1].model = "gpt-3.5-turbo" <=> body[r].model.s = "")

\* C3 (amended): the upstream request carries 'gpt-3.5-turbo' in place of
\* the supplied identifier when that identifier is the empty string, and
\* the supplied identifier unchanged whenever it is not empty, on either
\* provider; so the request's model id is 'gpt-3.5-turbo' exactly when the
\* supplied identifier is '' or is 'gpt-3.5-turbo' itself.
C3_FallbackOnlyForEmpty ==
    \A r \in Reqs :
        (sent[r] # << >> /\ body[r].model.t = "string")
            => /\ body[r].model.s = "" => sent[r][1].model = "gpt-3.5-turbo"
               /\ body[r].model.s # "" => sent[r][1].model = body[r].model.s
               /\ sent[r][1].model = "gpt-3.5-turbo"
                      <=> body[r].model.s \in {"", "gpt-3.5-turbo"}

C3_Witness ==
    /\ pc[1] = "awaiting"
    /\ body[1].model = JStr("")
    /\ sent[1][1].provider = "A"
    /\ sent[1][1].model = "gpt-3.5-turbo"

\* C4: when messages is missing or is not a list, POST rejects and no
\* upstream request has gone out, whatever the model field holds.
C4_MalformedRejectedNoUpstream ==
    \A r \in Reqs :
        (Dispatched(r) /\ body[r].messages.t # "array")
            => /\ pc[r] = "failed"
               /\ result[r] = "TypeError"
               /\ sent[r] = << >>
               /\ status[r] = "none"

C4_Witness ==
    /\ pc[1] = "failed"
    /\ body[1].messages = JStr("hi")
    /\ body[1].model = JStr("claude-v1")
    /\ sent[1] = << >>

\* C5: with a well-formed messages list and no model field the request
\* does not fail on the missing field: provider A is called with the
\* default model 'gpt-3.5-turbo'.
C5_AbsentModelDefaults ==
    \A r \in Reqs :
        (Dispatched(r) /\ body[r].messages.t = "array"
                       /\ body[r].model.t = "undefined")
            => /\ result[r] # "TypeError"
               /\ Len(sent[r]) = 1
               /\ sent[r][1].provider = "A"
               /\ sent[r][1].model = "gpt-3.5-turbo"

\* C6: when the upstream answers with a non-success status the call
\* fails, with an error that is not the network failure, and no stream is
\* returned as a successful response.
C6_ErrorStatusFails ==
    \A r \in Reqs :
        status[r] = "error"
            => /\ pc[r] = "failed"
               /\ result[r] \notin {"stream", "NetworkError", "pending"}

\* C7: once a successful request's stream is drained, the chunks the
\* caller received are exactly the chunks the upstream produced, in order.
C7_DrainedEqualsProduced ==
    \A r \in Reqs :
        (pc[r] = "done" /\ status[r] = "ok") => received[r] = Produced(r)

C7_Witness ==
    /\ pc[1] = "done"
    /\ status[1] = "ok"
    /\ Len(received[1]) >= 2
    /\ received[1][1] # received[1][2]

\* C8: a request with a well-formed payload (a messages list; model a
\* string or absent) has issued exactly one upstream request once POST has
\* acted on it, and never a second one.
C8_ExactlyOneUpstreamRequest ==
    \A r \in Reqs :
        /\ Len(sent[r]) <= 1
        /\ (Dispatched(r) /\ body[r].messages.t = "array"
                          /\ body[r].model.t \in {"string", "undefined"})
               => Len(sent[r]) = 1

\* C9: under every interleaving, what a request does is what it does
\* alone: it throws or issues the one upstream request its own payload
\* determines, and the chunks relayed to its caller are those the upstream
\* streams for that request.
C9_RequestsIndependent ==
    \A r \in Reqs :
        Dispatched(r) =>
            LET alone == ControllerGenerateResponse(body[r].messages, body[r].model)
            IN  IF alone.throws
                THEN sent[r] = << >> /\ result[r] = "TypeError" /\ received[r] = << >>
                ELSE /\ sent[r] = <<alone.request>>
                     /\ \A i \in 1..Len(received[r]) :
                            received[r][i] = UpstreamByte(alone.request, i)

C9_Witness ==
    /\ pc[1] = "streaming" /\ pc[2] = "streaming"
    /\ sent[1][1].provider = "A" /\ sent[2][1].provider = "B"
    /\ Len(received[1]) >= 1 /\ Len(received[2]) >= 1

\* C10: what the caller has received is always a prefix of what the
\* upstream produced and is never taken back, and once the upstream body
\* has errored the caller's stream is eventually cut off.
C10_DropKeepsPrefixAndEnds ==
    /\ [](\A r \in Reqs : IsPrefixOf(received[r], Produced(r)))
    /\ [][\A r \in Reqs : IsPrefixOf(received[r], received'[r])]_vars
    /\ (upst[1] = "errored") ~> (pc[1] = "aborted")

C10_Witness ==
    /\ pc[1] = "aborted"
    /\ Len(received[1]) >= 1
    /\ Len(received[1]) < produced[1]

\* C11: every getAvailableModels call returns the same ordered catalog,
\* whatever getAvailableModels and generateResponse calls came before it,
\* and the ids of that catalog are pairwise distinct.
C11_CatalogFixedAndDistinct ==
    \A k \in 1..Len(listed) :
        /\ listed[k] = listed[1]
        /\ [i \in 1..Len(listed[k]) |-> listed[k][i].id]
               = <<"gpt-3.5-turbo", "gpt-4", "claude-v1", "claude-instant-v1",
                   "text-davinci-003", "text-curie-001">>
        /\ \A i, j \in 1..Len(listed[k]) :
               listed[k][i].id = listed[k][j].id => i = j

C11_Witness ==
    /\ Len(listed) >= 2
    /\ pc[1] = "streaming"
    /\ sent[1] # << >>

====
